---- MODULE Spec2Model ----
(***************************************************************************)
(* Model of the SQuAD question-answering preprocessing of                  *)
(* utils/data_helpers.py: the span aligner (improve_answer_span), the      *)
(* offset mapper and example builder (get_format_text_and_word_offset,     *)
(* preprocessing), the window chunker (data_process_with_sliding,          *)
(* data_process_without_sliding) and the cache decorator.                  *)
(*                                                                         *)
(* Python lists and strings are sequences (index i of Python is index i+1  *)
(* here); a string is a sequence of one-character strings.                 *)
(***************************************************************************)
EXTENDS Integers, Sequences, FiniteSets, TLC

VARIABLES
    pc,               \* position of the running call
    context_tokens,   \* improve_answer_span: argument
    answer_tokens,    \* improve_answer_span: argument
    start_position,   \* improve_answer_span: argument / answer span of the example
    end_position,     \* improve_answer_span: argument / answer span of the example
    ret,              \* value returned (or exception raised) by the call
    question_ids,     \* [CLS] + question ids + [SEP] of the example
    context_ids,      \* subword ids of the example's context
    is_training,      \* argument of data_process_with_sliding
    max_sen_len,      \* self.max_sen_len
    doc_stride,       \* self.doc_stride
    s_idx,            \* window start (inclusive)
    e_idx,            \* window end (exclusive)
    all_data,         \* records appended so far
    windows,          \* the (s_idx, e_idx) range logged for each record of all_data
    context,          \* preprocessing: the paragraph's context text
    qa,               \* preprocessing: the question-answer pair read last
    k,                \* preprocessing: number of question-answer pairs read
    examples,         \* preprocessing: examples appended so far
    warnings,         \* preprocessing: ids logged by logging.warning
    disk,             \* cache: the .pt files that exist, data_path -> saved data
    loader,           \* cache: the loader object (self) of the last call
    filepath,         \* cache: kwargs['filepath'] of the last call
    served,           \* cache: the last call took the branch that loads the file
    n_calls,          \* cache: number of data_process calls made
    tokenizer,        \* self.tokenizer, the injected tokenizer
    question_text,    \* example[1]
    question_tokens,  \* tokenizer(example[1]), cut to max_query_length
    input_tokens,     \* ['[CLS]'] + question_tokens + ['[SEP]'] + context_tokens + ['[SEP]']
    max_query_length,         \* self.max_query_length
    max_position_embeddings   \* self.max_position_embeddings

spanVars == <<context_tokens, answer_tokens, ret>>
posVars == <<start_position, end_position>>
exampleVars == <<question_ids, context_ids, is_training, max_sen_len, doc_stride>>
slideVars == <<s_idx, e_idx, all_data, windows>>

preVars == <<context, qa, k, examples, warnings>>

cacheVars == <<disk, loader, filepath, served, n_calls>>

encVars == <<tokenizer, question_text, question_tokens, input_tokens,
             max_query_length, max_position_embeddings>>

vars == <<pc, spanVars, posVars, exampleVars, slideVars, preVars, cacheVars, encVars>>

----------------------------------------------------------------------------
(* Bounds *)

MaxCtxTokens == 4
MaxAnsTokens == 2
MaxContextLen == 6
MaxQuestionLen == 1
MaxSenLen == 7
MaxStride == 3
MaxTextLen == 4
MaxAnswerLen == 2
MaxQas == 2
MaxCalls == 2
MaxPositionEmbeddings == 6

----------------------------------------------------------------------------
(* Python primitives *)

None == "None"

Max(a, b) == IF a >= b THEN a ELSE b
Min(a, b) == IF a <= b THEN a ELSE b

\* all sequences over S with length in lo..hi
SeqsOf(S, lo, hi) == UNION {[1..n -> S] : n \in lo..hi}

\* seq[i] is defined for -len <= i < len
PyIndexOK(seq, i) == i >= -Len(seq) /\ i < Len(seq)

\* seq[i], a negative i counting from the end
PyGet(seq, i) == IF i < 0 THEN seq[Len(seq) + i + 1] ELSE seq[i + 1]

\* the bound of a slice, as Python normalises it
PyClamp(n, i) == IF i < 0 THEN Max(n + i, 0) ELSE Min(i, n)

\* seq[lo:hi]
PySlice(seq, lo, hi) ==
    LET l == PyClamp(Len(seq), lo)
        h == PyClamp(Len(seq), hi)
    IN  IF l >= h THEN <<>> ELSE [x \in 1..(h - l) |-> seq[l + x]]

----------------------------------------------------------------------------
(* Span aligner: improve_answer_span *)

Return(s, e) == [kind |-> "return", start |-> s, end |-> e]
IndexError == [kind |-> "IndexError", start |-> 0, end |-> 0]

\* for j in range(len(answer_tokens)): compare, break at the first mismatch
RECURSIVE InnerLoop(_, _, _, _, _)
InnerLoop(ctx, ans, i, j, new_end) ==
    IF j >= Len(ans) THEN [err |-> FALSE, new_end |-> new_end]
    ELSE IF ~PyIndexOK(ctx, i + j) THEN [err |-> TRUE, new_end |-> new_end]
    ELSE IF PyGet(ans, j) # PyGet(ctx, i + j) THEN [err |-> FALSE, new_end |-> new_end]
    ELSE InnerLoop(ctx, ans, i, j + 1, i + j)

\* for i in range(start_position, len(context_tokens))
RECURSIVE OuterLoop(_, _, _, _, _, _)
OuterLoop(ctx, ans, start, end, i, new_end) ==
    IF i >= Len(ctx) THEN Return(start, end)
    ELSE IF ~PyIndexOK(ctx, i) \/ ~PyIndexOK(ans, 0) THEN IndexError
    ELSE IF PyGet(ctx, i) # PyGet(ans, 0) THEN OuterLoop(ctx, ans, start, end, i + 1, new_end)
    ELSE LET r == InnerLoop(ctx, ans, i, 0, new_end)
         IN  IF r.err THEN IndexError
             ELSE IF r.new_end - i + 1 = Len(ans) THEN Return(i, r.new_end)
             ELSE OuterLoop(ctx, ans, start, end, i + 1, r.new_end)

\* a span aligner that scans the context from its first token
improve_answer_span_from_zero(ctx, ans, start, end) ==
    OuterLoop(ctx, ans, start, end, 0, None)

improve_answer_span(ctx, ans, start, end) ==
    OuterLoop(ctx, ans, start, end, start, None)

----------------------------------------------------------------------------
(* Specification of a call of improve_answer_span on bounded arguments *)

Tokens == {"a", "b"}

SpanUnused ==
    /\ context_tokens = <<>>
    /\ answer_tokens = <<>>
    /\ ret = None

SlideUnused ==
    /\ question_ids = <<>>
    /\ context_ids = <<>>
    /\ is_training = FALSE
    /\ max_sen_len = 0
    /\ doc_stride = 0
    /\ s_idx = 0
    /\ e_idx = 0
    /\ all_data = <<>>
    /\ windows = <<>>

PreUnused ==
    /\ context = <<>>
    /\ qa = None
    /\ k = 0
    /\ examples = <<>>
    /\ warnings = <<>>

EncUnused ==
    /\ tokenizer = None
    /\ question_text = <<>>
    /\ question_tokens = <<>>
    /\ input_tokens = <<>>
    /\ max_query_length = 0
    /\ max_position_embeddings = 0

CacheUnused ==
    /\ disk = <<>>
    /\ loader = None
    /\ filepath = <<>>
    /\ served = FALSE
    /\ n_calls = 0

InitSpan ==
    /\ pc = "call"
    /\ EncUnused
    /\ PreUnused
    /\ CacheUnused
    /\ context_tokens \in SeqsOf(Tokens, 0, MaxCtxTokens)
    /\ answer_tokens \in SeqsOf(Tokens, 1, MaxAnsTokens)
    /\ start_position \in 0..MaxCtxTokens
    /\ end_position \in start_position..MaxCtxTokens
    /\ ret = None
    /\ SlideUnused

ImproveAnswerSpan ==
    /\ pc = "call"
    /\ ret' = improve_answer_span(context_tokens, answer_tokens, start_position, end_position)
    /\ pc' = IF ret'.kind = "return" THEN "returned" ELSE "raised"
    /\ UNCHANGED <<context_tokens, answer_tokens, posVars, exampleVars, slideVars, preVars, cacheVars, encVars>>

NextSpan == ImproveAnswerSpan

SpecSpan == InitSpan /\ [][NextSpan]_vars

\* answer_tokens occurs as a whole in context_tokens at index i
FullMatchAt(ctx, ans, i) ==
    /\ i >= 0
    /\ i + Len(ans) <= Len(ctx)
    /\ \A j \in 0..(Len(ans) - 1) : ctx[i + j + 1] = ans[j + 1]

MatchIndices(ctx, ans, start) == {i \in start..Len(ctx) : FullMatchAt(ctx, ans, i)}

SetMin(S) == CHOOSE x \in S : \A y \in S : x <= y

\* C4 (as claimed): when answer_tokens has no full match at any index >=
\* approx_start, improve_answer_span returns (approx_start, approx_end)
\* unchanged as a normal return value.
C4_NoMatchReturnsUnchanged ==
    (pc \in {"returned", "raised"} /\ MatchIndices(context_tokens, answer_tokens, start_position) = {})
        => ret = Return(start_position, end_position)

\* C5: when a full match exists at an index >= approx_start,
\* improve_answer_span returns (i, i + len(answer_tokens) - 1) for the
\* smallest such index i.
C5_FirstFullMatchWins ==
    (pc \in {"returned", "raised"} /\ MatchIndices(context_tokens, answer_tokens, start_position) # {})
        => LET i == SetMin(MatchIndices(context_tokens, answer_tokens, start_position))
           IN  ret = Return(i, i + Len(answer_tokens) - 1)

\* C5 witness: a full match was returned although a partial match precedes
\* it at an index >= approx_start.
C5_Witness ==
    /\ pc = "returned"
    /\ MatchIndices(context_tokens, answer_tokens, start_position) # {}
    /\ \E i \in start_position..(ret.start - 1) : context_tokens[i + 1] = answer_tokens[1]
    /\ ret.start > start_position
    /\ Len(answer_tokens) > 1

----------------------------------------------------------------------------
(* Window chunker: data_process_with_sliding, for one example *)

CLS_IDX == 101
SEP_IDX == 102
UNK_IDX == 100

\* [0] * n, [1] * n; a non-positive n gives the empty list
Repeat(v, n) == [x \in 1..n |-> v]

\* seg = [0] * len(question_ids) + [1] * (len(input_ids) - len(question_ids))
SegmentIds(q_ids, input_ids) ==
    Repeat(0, Len(q_ids)) \o Repeat(1, Len(input_ids) - Len(q_ids))

\* rest_len = self.max_sen_len - len(question_ids) - 1
rest_len == max_sen_len - Len(question_ids) - 1

context_ids_len == Len(context_ids)

\* if start_position >= s_idx and end_position <= e_idx
AnswerInWindow(start, end, s, e) == start >= s /\ end <= e

\* the record appended for the window [s, e)
WindowRecord(s, e) ==
    LET tmp_context_ids == PySlice(context_ids, s, e)
        input_ids == question_ids \o tmp_context_ids \o <<SEP_IDX>>
        seg == SegmentIds(question_ids, input_ids)
        in_window == AnswerInWindow(start_position, end_position, s, e)
        new_start_position ==
            IF in_window THEN (start_position - s) + Len(question_ids) ELSE 0
        new_end_position ==
            IF in_window
            THEN (start_position - s) + (end_position - start_position) + Len(question_ids)
            ELSE 0
    IN  IF is_training
        THEN [input_ids |-> input_ids, seg |-> seg,
              start_position |-> new_start_position, end_position |-> new_end_position]
        ELSE [input_ids |-> input_ids, seg |-> seg,
              start_position |-> start_position, end_position |-> end_position]

\* the record appended when the context fits into rest_len
SingleRecord ==
    LET input_ids == question_ids \o context_ids \o <<SEP_IDX>>
        seg == SegmentIds(question_ids, input_ids)
        shift == IF is_training THEN Len(question_ids) ELSE 0
    IN  [input_ids |-> input_ids, seg |-> seg,
         start_position |-> start_position + shift, end_position |-> end_position + shift]

\* a loop exit that needs the window to pass the end of the context
LoopExit_strict(e, len) == e > len

\* if e_idx >= context_ids_len: break
LoopExit(e, len) == e >= len

\* question ids without the [CLS] and [SEP] around them
QuestionIds_bare(n) == Repeat(UNK_IDX, n)

\* question_ids = [self.CLS_IDX] + question_ids + [self.SEP_IDX]
QuestionIds(n) == <<CLS_IDX>> \o Repeat(UNK_IDX, n) \o <<SEP_IDX>>

\* the context ids are distinct, so that an id names its position
ContextIds(n) == [x \in 1..n |-> x]

InitSlide ==
    /\ pc = "rest_len"
    /\ EncUnused
    /\ SpanUnused
    /\ PreUnused
    /\ CacheUnused
    /\ \E n \in 0..MaxQuestionLen : question_ids = QuestionIds(n)
    /\ \E n \in 0..MaxContextLen : context_ids = ContextIds(n)
    /\ max_sen_len \in 1..MaxSenLen
    /\ doc_stride \in 1..MaxStride
    /\ is_training \in BOOLEAN
    /\ IF is_training
       THEN /\ Len(context_ids) > 0
            /\ start_position \in 0..(Len(context_ids) - 1)
            /\ end_position \in start_position..(Len(context_ids) - 1)
       ELSE start_position = -1 /\ end_position = -1
    /\ s_idx = 0
    /\ e_idx = 0
    /\ all_data = <<>>
    /\ windows = <<>>

\* if context_ids_len > rest_len: s_idx, e_idx = 0, rest_len
EnterSliding ==
    /\ pc = "rest_len"
    /\ context_ids_len > rest_len
    /\ s_idx' = 0
    /\ e_idx' = rest_len
    /\ pc' = "window"
    /\ UNCHANGED <<spanVars, posVars, exampleVars, preVars, cacheVars, encVars, all_data, windows>>

\* one iteration of the while True loop
SlideWindow ==
    /\ pc = "window"
    /\ all_data' = Append(all_data, WindowRecord(s_idx, e_idx))
    /\ windows' = Append(windows, <<s_idx, e_idx>>)
    /\ IF LoopExit(e_idx, context_ids_len)
       THEN pc' = "done" /\ UNCHANGED <<s_idx, e_idx>>
       ELSE /\ s_idx' = s_idx + doc_stride
            /\ e_idx' = e_idx + doc_stride
            /\ pc' = "window"
    /\ UNCHANGED <<spanVars, posVars, exampleVars, preVars, cacheVars, encVars>>

\* else: the whole context goes into one record
NoSliding ==
    /\ pc = "rest_len"
    /\ ~(context_ids_len > rest_len)
    /\ all_data' = Append(all_data, SingleRecord)
    /\ windows' = Append(windows, <<0, context_ids_len>>)
    /\ pc' = "done"
    /\ UNCHANGED <<spanVars, posVars, exampleVars, preVars, cacheVars, encVars, s_idx, e_idx>>

NextSlide == EnterSliding \/ SlideWindow \/ NoSliding

SpecSlide == InitSlide /\ [][NextSlide]_vars

\* ceil(n / d) for d > 0
CeilDiv(n, d) == (n + d - 1) \div d

\* the window logged for record w lies around the whole span [a, b]: s <= a, b < e
SpanInside(w) == windows[w][1] <= start_position /\ end_position < windows[w][2]

\* record w reports the answer at its place in the window
ReportsShifted(w) ==
    /\ all_data[w].start_position = start_position - windows[w][1] + Len(question_ids)
    /\ all_data[w].end_position = end_position - windows[w][1] + Len(question_ids)
    /\ all_data[w].end_position < Len(all_data[w].input_ids)
    /\ \A x \in 0..(end_position - start_position) :
           all_data[w].input_ids[all_data[w].start_position + x + 1]
               = context_ids[start_position + x + 1]

ReportsSentinel(w) == all_data[w].start_position = 0 /\ all_data[w].end_position = 0

\* C1 (as claimed): in training, when the answer span lies fully inside
\* exactly one emitted window [s_idx, e_idx), that window's record reports
\* the shifted span (addressing context_ids[a..b]) and every other window's
\* record of the example reports the sentinel (0, 0).
C1_AnswerInExactlyOneWindow ==
    (pc = "done" /\ is_training /\ context_ids_len > rest_len)
        => \A w \in 1..Len(all_data) :
               (SpanInside(w) /\ \A j \in 1..Len(all_data) : SpanInside(j) => j = w)
                   => /\ ReportsShifted(w)
                      /\ \A j \in 1..Len(all_data) : j # w => ReportsSentinel(j)

\* C2 (as claimed): the union of the emitted window ranges covers every
\* context position of [0, L); stated for a positive window width rest_len,
\* the configurations where a window can hold a token at all.
C2_WindowsCoverContext ==
    (pc = "done" /\ rest_len > 0)
        => \A p \in 0..(context_ids_len - 1) :
               \E w \in 1..Len(windows) : windows[w][1] <= p /\ p < windows[w][2]

C8_NoRecordForNonPositiveRestLen ==
    rest_len <= 0 => Len(all_data) = 0

----------------------------------------------------------------------------
(* Offset mapper and example builder: get_format_text_and_word_offset,     *)
(* preprocessing                                                           *)

\* c == " " or c == "\t" or c == "\r" or c == "\n" or ord(c) == 0x202F
is_whitespace(c) == c \in {" ", "\t", "\r", "\n", "U+202F"}

\* an offset mapper that records the offset before it updates doc_tokens
RECURSIVE FormatLoop_offset_first(_, _, _, _, _)
FormatLoop_offset_first(text, i, doc_tokens, char_to_word_offset, prev_is_whitespace) ==
    IF i > Len(text)
    THEN [doc_tokens |-> doc_tokens, char_to_word_offset |-> char_to_word_offset]
    ELSE LET c == text[i]
             toks == IF is_whitespace(c) THEN doc_tokens
                     ELSE IF prev_is_whitespace THEN Append(doc_tokens, <<c>>)
                     ELSE [doc_tokens EXCEPT ![Len(doc_tokens)] = Append(@, c)]
         IN  FormatLoop_offset_first(text, i + 1, toks,
                        Append(char_to_word_offset, Len(doc_tokens) - 1), is_whitespace(c))

\* an offset mapper that records len(doc_tokens) instead of len(doc_tokens) - 1
RECURSIVE FormatLoop_one_based(_, _, _, _, _)
FormatLoop_one_based(text, i, doc_tokens, char_to_word_offset, prev_is_whitespace) ==
    IF i > Len(text)
    THEN [doc_tokens |-> doc_tokens, char_to_word_offset |-> char_to_word_offset]
    ELSE LET c == text[i]
             toks == IF is_whitespace(c) THEN doc_tokens
                     ELSE IF prev_is_whitespace THEN Append(doc_tokens, <<c>>)
                     ELSE [doc_tokens EXCEPT ![Len(doc_tokens)] = Append(@, c)]
         IN  FormatLoop_one_based(text, i + 1, toks,
                        Append(char_to_word_offset, Len(toks)), is_whitespace(c))

\* for c in text: ...
RECURSIVE FormatLoop(_, _, _, _, _)
FormatLoop(text, i, doc_tokens, char_to_word_offset, prev_is_whitespace) ==
    IF i > Len(text)
    THEN [doc_tokens |-> doc_tokens, char_to_word_offset |-> char_to_word_offset]
    ELSE LET c == text[i]
             toks == IF is_whitespace(c) THEN doc_tokens
                     ELSE IF prev_is_whitespace THEN Append(doc_tokens, <<c>>)
                     ELSE [doc_tokens EXCEPT ![Len(doc_tokens)] = Append(@, c)]
         IN  FormatLoop(text, i + 1, toks,
                        Append(char_to_word_offset, Len(toks) - 1), is_whitespace(c))

get_format_text_and_word_offset(text) == FormatLoop(text, 1, <<>>, <<>>, TRUE)

\* " ".join(words)
RECURSIVE JoinSpace(_)
JoinSpace(words) ==
    IF Len(words) = 0 THEN <<>>
    ELSE IF Len(words) = 1 THEN words[1]
    ELSE words[1] \o <<" ">> \o JoinSpace(Tail(words))

\* text.strip().split(): the maximal runs of non-whitespace characters
RECURSIVE SplitLoop(_, _, _, _)
SplitLoop(text, i, words, word) ==
    IF i > Len(text) THEN (IF word = <<>> THEN words ELSE Append(words, word))
    ELSE IF is_whitespace(text[i])
         THEN SplitLoop(text, i + 1, IF word = <<>> THEN words ELSE Append(words, word), <<>>)
         ELSE SplitLoop(text, i + 1, words, Append(word, text[i]))

PySplit(text) == SplitLoop(text, 1, <<>>, <<>>)

\* hay.find(needle): the lowest index where needle occurs, or -1
RECURSIVE FindFrom(_, _, _)
FindFrom(hay, needle, i) ==
    IF i + Len(needle) > Len(hay) THEN -1
    ELSE IF \A x \in 1..Len(needle) : hay[i + x] = needle[x] THEN i
    ELSE FindFrom(hay, needle, i + 1)

PyFind(hay, needle) == FindFrom(hay, needle, 0)

\* a reconstruction that leaves out the word at end_position
ActualText_short(tokens, start, end) == JoinSpace(PySlice(tokens, start, end))

\* actual_text = " ".join(context_tokens[start_position:(end_position + 1)])
ActualText(tokens, start, end) == JoinSpace(PySlice(tokens, start, end + 1))

\* cleaned_answer_text = " ".join(orig_answer_text.strip().split())
CleanedAnswerText(orig_answer_text) == JoinSpace(PySplit(orig_answer_text))

\* the body of the loop over qas for one training question-answer pair:
\* raises IndexError, skips the pair with a warning, or keeps it
PreprocessTraining(ctx, answer_offset, orig_answer_text) ==
    LET fmt == get_format_text_and_word_offset(ctx)
        word_offset == fmt.char_to_word_offset
        answer_length == Len(orig_answer_text)
    IN  IF ~PyIndexOK(word_offset, answer_offset)
           \/ ~PyIndexOK(word_offset, answer_offset + answer_length - 1)
        THEN [kind |-> "IndexError", start |-> 0, end |-> 0]
        ELSE LET start == PyGet(word_offset, answer_offset)
                 end == PyGet(word_offset, answer_offset + answer_length - 1)
                 actual_text == ActualText(fmt.doc_tokens, start, end)
                 cleaned_answer_text == CleanedAnswerText(orig_answer_text)
             IN  IF PyFind(actual_text, cleaned_answer_text) = -1
                 THEN [kind |-> "continue", start |-> start, end |-> end]
                 ELSE [kind |-> "append", start |-> start, end |-> end]

Alphabet == {" ", "a"}

\* the question-answer pairs a dataset file can hold for a context
QaSet(ctx) ==
    [answer_start : 0..(Len(ctx) + 1), text : SeqsOf(Alphabet, 1, MaxAnswerLen)]

InitPre ==
    /\ pc = "qas"
    /\ EncUnused
    /\ SpanUnused
    /\ CacheUnused
    /\ question_ids = <<>>
    /\ context_ids = <<>>
    /\ is_training \in BOOLEAN
    /\ max_sen_len = 0
    /\ doc_stride = 0
    /\ s_idx = 0
    /\ e_idx = 0
    /\ all_data = <<>>
    /\ windows = <<>>
    /\ start_position = -1
    /\ end_position = -1
    /\ context \in SeqsOf(Alphabet, 0, MaxTextLen)
    /\ qa = None
    /\ k = 0
    /\ examples = <<>>
    /\ warnings = <<>>

\* for k in range(len(qas)): one training question-answer pair
PreprocessQa ==
    /\ pc = "qas"
    /\ is_training
    /\ k < MaxQas
    /\ \E q \in QaSet(context) :
         LET r == PreprocessTraining(context, q.answer_start, q.text)
         IN  /\ qa' = q
             /\ k' = k + 1
             /\ pc' = IF r.kind = "IndexError" THEN "raised" ELSE "qas"
             /\ examples' = IF r.kind = "append"
                            THEN Append(examples, [qas_id |-> k + 1,
                                                   start_position |-> r.start,
                                                   end_position |-> r.end])
                            ELSE examples
             /\ warnings' = IF r.kind = "continue" THEN Append(warnings, k + 1)
                            ELSE warnings
    /\ UNCHANGED <<context, spanVars, posVars, exampleVars, slideVars, cacheVars, encVars>>

\* for k in range(len(qas)): one question without answers (is_training False)
PreprocessQaInference ==
    /\ pc = "qas"
    /\ ~is_training
    /\ k < MaxQas
    /\ k' = k + 1
    /\ examples' = Append(examples, [qas_id |-> k + 1,
                                     start_position |-> None,
                                     end_position |-> None])
    /\ UNCHANGED <<pc, qa, warnings, context, spanVars, posVars, exampleVars, slideVars, cacheVars, encVars>>

\* return examples
PreprocessingReturn ==
    /\ pc = "qas"
    /\ pc' = "returned"
    /\ UNCHANGED <<preVars, spanVars, posVars, exampleVars, slideVars, cacheVars, encVars>>

NextPre == PreprocessQa \/ PreprocessQaInference \/ PreprocessingReturn

SpecPre == InitPre /\ [][NextPre]_vars

\* the positions (from 1) where a word of text starts
WordStarts(text) ==
    {i \in 1..Len(text) :
        ~is_whitespace(text[i]) /\ (i = 1 \/ is_whitespace(text[i - 1]))}

\* the position after the last character of the word that starts at i
RECURSIVE WordEnd(_, _)
WordEnd(text, i) ==
    IF i > Len(text) \/ is_whitespace(text[i]) THEN i ELSE WordEnd(text, i + 1)

\* the n-th (from 0) smallest element of S
RECURSIVE NthMin(_, _)
NthMin(S, n) == IF n = 0 THEN SetMin(S) ELSE NthMin(S \ {SetMin(S)}, n - 1)

\* the whitespace-delimited words of text
WordsOf(text) ==
    [n \in 1..Cardinality(WordStarts(text)) |->
        LET i == NthMin(WordStarts(text), n - 1)
        IN  SubSeq(text, i, WordEnd(text, i) - 1)]

\* the index (from 0) of the last word starting at or before character c
\* (from 0), -1 inside leading whitespace
WordOfChar(text, c) == Cardinality({i \in WordStarts(text) : i <= c + 1}) - 1

\* the words with index (from 0) in s..e, in order
WordSpan(text, s, e) ==
    LET lo == Max(s, 0)
        hi == Min(e, Len(WordsOf(text)) - 1)
    IN  [n \in 1..(hi - lo + 1) |-> WordsOf(text)[lo + n]]

IsSubstring(needle, hay) ==
    \E i \in 0..(Len(hay) - Len(needle)) :
        \A x \in 1..Len(needle) : hay[i + x] = needle[x]

\* the whitespace-normalized answer text occurs in the context words joined
\* over [char_to_word[answer_start], char_to_word[answer_start + len - 1]]
AnswerFoundInWordSpan(text, q) ==
    IsSubstring(JoinSpace(WordsOf(q.text)),
                JoinSpace(WordSpan(text,
                                   WordOfChar(text, q.answer_start),
                                   WordOfChar(text, q.answer_start + Len(q.text) - 1))))

LastQaKept == examples # <<>> /\ examples[Len(examples)].qas_id = k

KeptInOrder ==
    \A x, y \in 1..Len(examples) : x < y => examples[x].qas_id < examples[y].qas_id

\* C6 (as claimed): preprocessing never aborts because of malformed answer
\* offset data.
C6_NeverAborts == pc # "raised"

----------------------------------------------------------------------------
(* Cache decorator and data_process *)

Digits == <<"0", "1", "2", "3", "4", "5", "6", "7", "8", "9">>

\* str(n) for a non-negative integer
RECURSIVE Str(_)
Str(n) == IF n < 10 THEN <<Digits[n + 1]>> ELSE Str(n \div 10) \o <<Digits[(n % 10) + 1]>>

\* path.split('.')[0]: the characters before the first '.'
RECURSIVE SplitDotFirst(_)
SplitDotFirst(path) ==
    IF path = <<>> \/ Head(path) = "." THEN <<>>
    ELSE <<Head(path)>> \o SplitDotFirst(Tail(path))

\* data_path = filepath.split('.')[0] + '_' + postfix + '.pt', where postfix is
\* kwargs['postfix'] + '_' + doc_stride + '_' + max_sen_len + '_' + max_query_length
DataPath(path, postfix, self) ==
    SplitDotFirst(path) \o <<"_">> \o postfix \o <<"_">> \o Str(self.doc_stride) \o <<"_">>
        \o Str(self.max_sen_len) \o <<"_">> \o Str(self.max_query_length)
        \o <<".", "p", "t">>

\* postfix='sliding' or postfix='no_sliding', as data_process passes it
Postfix(self) ==
    IF self.with_sliding THEN <<"s", "l", "i", "d", "i", "n", "g">>
    ELSE <<"n", "o", "_", "s", "l", "i", "d", "i", "n", "g">>

\* what the undecorated method computes: it is determined by the file, by
\* is_training and by the loader's configuration
Pipeline(self, path, training) ==
    [filepath |-> path, is_training |-> training, with_sliding |-> self.with_sliding,
     doc_stride |-> self.doc_stride, max_sen_len |-> self.max_sen_len,
     max_query_length |-> self.max_query_length]

DefaultLoader ==
    [with_sliding |-> TRUE, doc_stride |-> 64, max_sen_len |-> 384, max_query_length |-> 64]

\* loader objects: the default configuration and the ones that differ from
\* it in one field
Loaders ==
    {DefaultLoader,
     [DefaultLoader EXCEPT !.with_sliding = FALSE],
     [DefaultLoader EXCEPT !.doc_stride = 128],
     [DefaultLoader EXCEPT !.max_sen_len = 512],
     [DefaultLoader EXCEPT !.max_query_length = 32]}

\* dataset files: ./a, ./b, a.j, a.t, b.j
FilePaths ==
    {<<".", "/", "a">>, <<".", "/", "b">>, <<"a", ".", "j">>, <<"a", ".", "t">>,
     <<"b", ".", "j">>}

FileExists(data_path) == data_path \in DOMAIN disk

InitCache ==
    /\ pc = "idle"
    /\ EncUnused
    /\ SpanUnused
    /\ SlideUnused
    /\ PreUnused
    /\ start_position = -1
    /\ end_position = -1
    /\ disk = <<>>
    /\ loader = None
    /\ filepath = <<>>
    /\ served = FALSE
    /\ n_calls = 0

\* data_process(filepath, is_training) through the cache wrapper
DataProcess ==
    /\ n_calls < MaxCalls
    /\ \E self \in Loaders, path \in FilePaths, training \in BOOLEAN :
         LET data_path == DataPath(path, Postfix(self), self)
         IN  /\ loader' = self
             /\ filepath' = path
             /\ is_training' = training
             /\ IF ~FileExists(data_path)
                THEN /\ ret' = Pipeline(self, path, training)
                     /\ disk' = [f \in DOMAIN disk \cup {data_path} |->
                                    IF f = data_path THEN ret' ELSE disk[f]]
                     /\ served' = FALSE
                ELSE /\ ret' = disk[data_path]
                     /\ disk' = disk
                     /\ served' = TRUE
    /\ n_calls' = n_calls + 1
    /\ pc' = "idle"
    /\ UNCHANGED <<context_tokens, answer_tokens, posVars, question_ids, context_ids,
                   max_sen_len, doc_stride, slideVars, preVars, encVars>>

NextCache == DataProcess

SpecCache == InitCache /\ [][NextCache]_vars

\* the five components the cache is said to be keyed by
CacheKey(d) ==
    <<d.filepath, d.with_sliding, d.doc_stride, d.max_sen_len, d.max_query_length>>

\* C9 (as claimed): a call is served from the cache only by an entry stored
\* by an earlier call with the same file path, sliding mode, doc_stride,
\* max_sen_len and max_query_length.
C9_ServedOnlyFromOwnKey ==
    served => CacheKey(ret) = CacheKey(Pipeline(loader, filepath, is_training))

\* C16: after any sequence of data_process calls, what a call returns is
\* what the undecorated pipeline computes for the call's own file path,
\* is_training and loader configuration.
C16_ReturnsOwnPipeline ==
    n_calls > 0 => ret = Pipeline(loader, filepath, is_training)

----------------------------------------------------------------------------
(* Window chunker: data_process_without_sliding, for one example *)

\* a tokenizer that only splits at whitespace
WhitespaceTokenize(text) == PySplit(text)

\* the pieces of one word under a WordPiece vocabulary of single characters:
\* the first character, then one continuation piece per character
WordPieces(word) ==
    [n \in 1..Len(word) |-> IF n = 1 THEN <<word[1]>> ELSE <<"##", word[n]>>]

RECURSIVE Flatten(_)
Flatten(seqs) == IF seqs = <<>> THEN <<>> ELSE Head(seqs) \o Flatten(Tail(seqs))

WordPieceTokenize(text) ==
    Flatten([n \in 1..Len(PySplit(text)) |-> WordPieces(PySplit(text)[n])])

\* self.tokenizer(text)
Tokenize(kind, text) ==
    IF kind = "whitespace" THEN WhitespaceTokenize(text) ELSE WordPieceTokenize(text)

Tokenizers == {"whitespace", "wordpiece"}

\* vocab.stoi: the tokens of vocab.txt
Stoi == (<<"a">> :> 1) @@ (<<"##", "a">> :> 2)

\* self.vocab[token]: self.stoi.get(token, self.stoi.get(Vocab.UNK))
VocabId(token) == IF token \in DOMAIN Stoi THEN Stoi[token] ELSE UNK_IDX

TokenIds(tokens) == [n \in 1..Len(tokens) |-> VocabId(tokens[n])]

\* if len(question_tokens) > self.max_query_length: cut
TruncateQuestion(tokens, max_len) ==
    IF Len(tokens) > max_len THEN PySlice(tokens, 0, max_len) ELSE tokens

\* a truncation that leaves no room for the trailing [SEP]
TruncatedInputIds_full(q_ids, c_ids, max_pos) ==
    LET input_ids == q_ids \o c_ids
    IN  (IF Len(input_ids) > max_pos THEN PySlice(input_ids, 0, max_pos)
         ELSE input_ids) \o <<SEP_IDX>>

\* if len(input_ids) > max_position_embeddings - 1: cut; then append [SEP]
TruncatedInputIds(q_ids, c_ids, max_pos) ==
    LET input_ids == q_ids \o c_ids
    IN  (IF Len(input_ids) > max_pos - 1 THEN PySlice(input_ids, 0, max_pos - 1)
         ELSE input_ids) \o <<SEP_IDX>>

\* a shift that forgets [CLS] and [SEP]
PositionShift_tokens(q_ids, q_tokens) == Len(q_tokens)

\* start_position += (len(question_ids))
PositionShift(q_ids, q_tokens) == Len(q_ids)

\* the questions of the dataset: zero or more words
QuestionTexts == {JoinSpace(Repeat(<<"a">>, n)) : n \in 0..(MaxQuestionLen + 1)}

InitNoSlide ==
    /\ pc = "preprocessing"
    /\ CacheUnused
    /\ context_tokens = <<>>
    /\ answer_tokens = <<>>
    /\ ret = None
    /\ start_position = None
    /\ end_position = None
    /\ question_ids = <<>>
    /\ context_ids = <<>>
    /\ max_sen_len = 0
    /\ doc_stride = 0
    /\ s_idx = 0
    /\ e_idx = 0
    /\ all_data = <<>>
    /\ windows = <<>>
    /\ k = 0
    /\ examples = <<>>
    /\ warnings = <<>>
    /\ is_training \in BOOLEAN
    /\ context \in SeqsOf(Alphabet, 0, MaxTextLen)
    /\ IF is_training THEN qa \in QaSet(context) ELSE qa = None
    /\ tokenizer \in Tokenizers
    /\ question_text \in QuestionTexts
    /\ question_tokens = <<>>
    /\ input_tokens = <<>>
    /\ max_query_length \in 1..MaxQuestionLen
    /\ max_position_embeddings \in 1..MaxPositionEmbeddings

\* examples = self.preprocessing(filepath, is_training), for the one
\* question-answer pair of the file
BuildExample ==
    /\ pc = "preprocessing"
    /\ IF is_training
       THEN LET r == PreprocessTraining(context, qa.answer_start, qa.text)
            IN  /\ pc' = IF r.kind = "IndexError" THEN "raised"
                         ELSE IF r.kind = "continue" THEN "dropped" ELSE "example"
                /\ start_position' = IF r.kind = "append" THEN r.start ELSE None
                /\ end_position' = IF r.kind = "append" THEN r.end ELSE None
       ELSE /\ pc' = "example"
            /\ UNCHANGED <<start_position, end_position>>
    /\ UNCHANGED <<spanVars, exampleVars, slideVars, preVars, cacheVars, encVars>>

\* the body of the loop over examples of data_process_without_sliding
EncodeWithoutSliding ==
    /\ pc = "example"
    /\ LET q_tokens == TruncateQuestion(Tokenize(tokenizer, question_text), max_query_length)
           q_ids == <<CLS_IDX>> \o TokenIds(q_tokens) \o <<SEP_IDX>>
           c_tokens == Tokenize(tokenizer,
                                JoinSpace(get_format_text_and_word_offset(context).doc_tokens))
           c_ids == TokenIds(c_tokens)
           input_ids == TruncatedInputIds(q_ids, c_ids, max_position_embeddings)
           seg == SegmentIds(q_ids, input_ids)
           a_tokens == IF is_training THEN Tokenize(tokenizer, qa.text) ELSE <<>>
           span == IF is_training
                   THEN improve_answer_span(c_tokens, a_tokens, start_position, end_position)
                   ELSE Return(-1, -1)
           shift == IF is_training THEN PositionShift(q_ids, q_tokens) ELSE 0
       IN  /\ question_tokens' = q_tokens
           /\ question_ids' = q_ids
           /\ context_tokens' = c_tokens
           /\ context_ids' = c_ids
           /\ answer_tokens' = a_tokens
           /\ input_tokens' = <<<<"[CLS]">>>> \o q_tokens \o <<<<"[SEP]">>>> \o c_tokens
                                  \o <<<<"[SEP]">>>>
           /\ ret' = span
           /\ IF span.kind = "IndexError"
              THEN pc' = "raised" /\ all_data' = all_data
              ELSE /\ pc' = "done"
                   /\ all_data' = Append(all_data,
                          [input_ids |-> input_ids, seg |-> seg,
                           start_position |-> span.start + shift,
                           end_position |-> span.end + shift])
    /\ UNCHANGED <<posVars, is_training, max_sen_len, doc_stride, s_idx, e_idx, windows,
                   preVars, cacheVars, tokenizer, question_text, max_query_length,
                   max_position_embeddings>>

NextNoSlide == BuildExample \/ EncodeWithoutSliding

SpecNoSlide == InitNoSlide /\ [][NextNoSlide]_vars

UnderBudget == Len(question_ids) + Len(context_ids) <= max_position_embeddings - 1

\* input_tokens[start_position .. end_position] of the record
AddressedTokens == PySlice(input_tokens, all_data[1].start_position, all_data[1].end_position + 1)

----------------------------------------------------------------------------
(* Specification of a call of get_format_text_and_word_offset on bounded   *)
(* texts                                                                   *)

TextAlphabet == {" ", "\t", "a", "b"}

InitFormat ==
    /\ pc = "call"
    /\ EncUnused
    /\ SpanUnused
    /\ SlideUnused
    /\ CacheUnused
    /\ start_position = -1
    /\ end_position = -1
    /\ context \in SeqsOf(TextAlphabet, 0, MaxTextLen)
    /\ qa = None
    /\ k = 0
    /\ examples = <<>>
    /\ warnings = <<>>

\* context_tokens, word_offset = self.get_format_text_and_word_offset(context)
GetFormatTextAndWordOffset ==
    /\ pc = "call"
    /\ ret' = get_format_text_and_word_offset(context)
    /\ pc' = "returned"
    /\ UNCHANGED <<context_tokens, answer_tokens, posVars, exampleVars, slideVars,
                   preVars, cacheVars, encVars>>

NextFormat == GetFormatTextAndWordOffset

SpecFormat == InitFormat /\ [][NextFormat]_vars

\* C11: char_to_word has the length of the text, each value is the previous
\* value or the previous value plus one, and the last value is
\* len(tokens) - 1.
C11_OffsetsParallelAndMonotone ==
    pc = "returned"
        => LET offs == ret.char_to_word_offset
           IN  /\ Len(offs) = Len(context)
               /\ \A i \in 2..Len(offs) : offs[i] = offs[i - 1] \/ offs[i] = offs[i - 1] + 1
               /\ Len(offs) > 0 => offs[Len(offs)] = Len(ret.doc_tokens) - 1

\* C11 witness: a text of two words or more with whitespace between and
\* after them.
C11_Witness ==
    /\ pc = "returned"
    /\ Len(ret.doc_tokens) >= 2
    /\ is_whitespace(context[Len(context)])
    /\ \E i \in 1..Len(context) : ret.char_to_word_offset[i] = 1

\* C12 (as claimed): for every non-empty text the first entry of
\* char_to_word is 0, so every entry is a non-negative index.
C12_OffsetsStartAtZero ==
    (pc = "returned" /\ context # <<>>)
        => /\ ret.char_to_word_offset[1] = 0
           /\ \A i \in 1..Len(context) : ret.char_to_word_offset[i] >= 0

\* C12 (amended): for every non-empty text whose first character is not
\* whitespace the first entry is 0 and every entry is a valid index into the
\* token list; the characters of leading whitespace map to -1.
C12_OffsetsStartAtZeroWithoutLeadingWhitespace ==
    (pc = "returned" /\ context # <<>>)
        => IF is_whitespace(context[1])
           THEN ret.char_to_word_offset[1] = -1
           ELSE /\ ret.char_to_word_offset[1] = 0
                /\ \A i \in 1..Len(context) :
                       /\ ret.char_to_word_offset[i] >= 0
                       /\ ret.char_to_word_offset[i] < Len(ret.doc_tokens)

\* C12 witness: a text that starts with a word and holds a second word.
C12_Witness ==
    /\ pc = "returned"
    /\ context # <<>>
    /\ ~is_whitespace(context[1])
    /\ Len(ret.doc_tokens) >= 2
    /\ ret.char_to_word_offset[Len(context)] = 1

----------------------------------------------------------------------------
(* Claims about the records of the two policies                            *)

\* the segment ids of record r are parallel to its input ids: as many, 0 on
\* the first len(question_ids) positions and 1 on the rest
SegParallel(r) ==
    /\ Len(r.seg) = Len(r.input_ids)
    /\ \A i \in 1..Len(r.seg) : r.seg[i] = IF i <= Len(question_ids) THEN 0 ELSE 1

\* C13: in every record the segment ids are parallel to input_ids: same
\* length, 0 on the first len(question_ids) positions and 1 on the rest.
C13_SegmentIdsParallel ==
    pc = "done" => \A n \in 1..Len(all_data) : SegParallel(all_data[n])

----------------------------------------------------------------------------
(* Claims about the sliding-window loop, its termination and its sentinel  *)

\* the while True loop runs on: every enabled step of the call is taken
SpecSlideFair == SpecSlide /\ WF_vars(NextSlide)

\* the call of data_process_with_sliding on one example comes to its end
C15_LoopTerminates == <>(pc = "done")

\* C15: the sliding-window loop emits, for a context of subword length L
\* that it is entered for (L > rest_len > 0), at most ceil(L / doc_stride)
\* windows.
C15_WindowsAtMostCeil ==
    (pc = "done" /\ context_ids_len > rest_len /\ rest_len > 0)
        => Len(all_data) <= CeilDiv(context_ids_len, doc_stride)

\* the in-window test of line 588 succeeded for record w
PassedWindowTest(w) ==
    AnswerInWindow(start_position, end_position, windows[w][1], windows[w][2])

\* the input ids of record w hold every token of the answer
HoldsAnswer(w) ==
    \A x \in start_position..end_position :
        \E i \in 1..Len(all_data[w].input_ids) :
            all_data[w].input_ids[i] = context_ids[x + 1]

====
